---- MODULE Spec2Model ----
(***************************************************************************)
(* Model of the spelling-correction app (src/app/app.py): the edit         *)
(* generators edit_one_letter / edit_two_letters, get_corrections, and the *)
(* steps of main() that drive them.                                        *)
(*                                                                         *)
(* A word (Python str) is a sequence of one-character strings.  A          *)
(* probability (Python float) is a natural number of millionths, which     *)
(* keeps the order of the floats.  A Python set is a TLA+ set; the order   *)
(* in which list(a_set) enumerates it is not fixed by the language, so it  *)
(* is a nondeterministic choice among all enumerations.                    *)
(***************************************************************************)
EXTENDS Integers, Sequences, FiniteSets, TLC

VARIABLES pc, probs, vocab, user_word, one_edits, two_edits, valid_words,
          corrections, raised, shown, stats

vars == <<pc, probs, vocab, user_word, one_edits, two_edits, valid_words,
          corrections, raised, shown, stats>>

(***************************************************************************)
(* Bounds of the model and the inputs drawn within them.                   *)
(***************************************************************************)
MaxLen == 2

InputChars == {"a", "b"}

OtherChars == {"A"}

RECURSIVE WordsOver(_, _)
WordsOver(chars, n) ==
    IF n = 0 THEN {<<>>}
    ELSE LET shorter == WordsOver(chars, n - 1)
         IN  shorter \cup {<<c>> \o w : c \in chars, w \in {v \in shorter : Len(v) = n - 1}}

AlphaWords == WordsOver(InputChars, MaxLen)

BadWords == {<<c>> \o w : c \in OtherChars, w \in {v \in AlphaWords : Len(v) < MaxLen - 1}}

Words == AlphaWords \cup BadWords

FarWord == <<"z", "z", "z", "z", "z", "z">>

NearVocab == {<<>>, <<"a">>, <<"a", "b">>, <<"b", "a">>, <<"a", "b", "c">>,
              <<"a", "b", "a", "b">>}

EmptyTable == [w \in {} |-> 0]

Table(pairs) == [w \in {p[1] : p \in pairs} |-> (CHOOSE p \in pairs : p[1] = w)[2]]

\* The model files load_model may find: an empty vocabulary; a vocabulary far
\* from every input; a vocabulary whose table has two words of equal
\* probability among the first five; one whose table lacks a vocabulary word,
\* gives another the probability 0 and has a key outside the vocabulary.
Models ==
    { [vocab |-> {}, probs |-> EmptyTable],
      [vocab |-> {FarWord}, probs |-> Table({<<FarWord, 40>>})],
      [vocab |-> NearVocab \cup {FarWord},
       probs |-> Table({<<<<"a">>, 9>>, <<<<"a", "b">>, 7>>, <<<<"b", "a">>, 7>>,
                        <<<<>>, 3>>, <<<<"a", "b", "c">>, 2>>,
                        <<<<"a", "b", "a", "b">>, 1>>, <<FarWord, 40>>})],
      [vocab |-> NearVocab,
       probs |-> Table({<<<<"a">>, 9>>, <<<<"a", "b">>, 7>>, <<<<"b", "a">>, 5>>,
                        <<<<>>, 3>>, <<<<"a", "b", "a", "b">>, 0>>,
                        <<<<"b">>, 8>>})] }

(***************************************************************************)
(* edit_one_letter and edit_two_letters.                                   *)
(***************************************************************************)
letters == <<"a", "b", "c", "d", "e", "f", "g", "h", "i", "j", "k", "l", "m",
             "n", "o", "p", "q", "r", "s", "t", "u", "v", "w", "x", "y", "z">>

\* Python slices s[:i] and s[i:].
UpTo(s, i) == SubSeq(s, 1, i)

From(s, i) == SubSeq(s, i + 1, Len(s))

splits_short(word) == {<<UpTo(word, i - 1), From(word, i - 1)>> : i \in 1..Len(word)}

splits(word) == {<<UpTo(word, i), From(word, i)>> : i \in 0..Len(word)}

deletes_two(word) ==
    {s[1] \o From(s[2], 2) : s \in {t \in splits(word) : t[2] # <<>>}}

deletes(word) ==
    {s[1] \o From(s[2], 1) : s \in {t \in splits(word) : t[2] # <<>>}}

transposes(word) ==
    {s[1] \o <<s[2][2]>> \o <<s[2][1]>> \o From(s[2], 2) :
        s \in {t \in splits(word) : Len(t[2]) > 1}}

replaces(word) ==
    UNION {{s[1] \o <<letters[c]>> \o From(s[2], 1) : c \in DOMAIN letters} :
              s \in {t \in splits(word) : t[2] # <<>>}}

inserts(word) ==
    UNION {{s[1] \o <<letters[c]>> \o s[2] : c \in DOMAIN letters} :
              s \in splits(word)}

edit_one_letter_nodel(word) ==
    transposes(word) \cup replaces(word) \cup inserts(word)

edit_one_letter(word) ==
    deletes(word) \cup transposes(word) \cup replaces(word) \cup inserts(word)

edit_two_letters_once(word) == edit_one_letter(word)

edit_two_letters_strict(word) ==
    UNION {edit_one_letter(e1) : e1 \in edit_one_letter(word)} \ edit_one_letter(word)

edit_two_letters(word) ==
    UNION {edit_one_letter(e1) : e1 \in edit_one_letter(word)}

(***************************************************************************)
(* get_corrections.                                                        *)
(***************************************************************************)
\* probs.get(s, 0)
probs_get(table, s) == IF s \in DOMAIN table THEN table[s] ELSE 0

\* list(a_set): every enumeration of the set, each member once.
RECURSIVE list_of(_)
list_of(S) ==
    IF S = {} THEN {<<>>}
    ELSE UNION {{<<x>> \o t : t \in list_of(S \ {x})} : x \in S}

\* Number of leading pairs of s, sorted descending, whose key is >= k.
RECURSIVE KeepBefore(_, _)
KeepBefore(s, k) ==
    IF s = <<>> \/ s[1][2] < k THEN 0 ELSE 1 + KeepBefore(Tail(s), k)

RECURSIVE KeepBeforeAsc(_, _)
KeepBeforeAsc(s, k) ==
    IF s = <<>> \/ s[1][2] > k THEN 0 ELSE 1 + KeepBeforeAsc(Tail(s), k)

RECURSIVE sorted_asc(_)
sorted_asc(lst) ==
    IF lst = <<>> THEN <<>>
    ELSE LET front == sorted_asc(SubSeq(lst, 1, Len(lst) - 1))
             e     == lst[Len(lst)]
             k     == KeepBeforeAsc(front, e[2])
         IN  SubSeq(front, 1, k) \o <<e>> \o SubSeq(front, k + 1, Len(front))

sorted_not(lst) == lst

\* sorted(lst, key=lambda x: x[1], reverse=True): stable, descending by the
\* probability; pairs of equal probability keep the order they have in lst.
RECURSIVE sorted_desc(_)
sorted_desc(lst) ==
    IF lst = <<>> THEN <<>>
    ELSE LET front == sorted_desc(SubSeq(lst, 1, Len(lst) - 1))
             e     == lst[Len(lst)]
             k     == KeepBefore(front, e[2])
         IN  SubSeq(front, 1, k) \o <<e>> \o SubSeq(front, k + 1, Len(front))

Scored(table, suggestions) ==
    [i \in DOMAIN suggestions |-> <<suggestions[i], probs_get(table, suggestions[i])>>]

Returned(value) == [status |-> "none", value |-> value]

Raised(exception) == [status |-> exception, value |-> <<>>]

get_corrections_one(word, table, vocabulary) ==
    {Returned(sorted_desc(Scored(table, suggestions))) :
        suggestions \in list_of(edit_one_letter(word) \cap vocabulary)}

get_corrections_validating(word, table, vocabulary) ==
    IF \E i \in DOMAIN word : word[i] \notin {letters[c] : c \in DOMAIN letters}
    THEN {Raised("InvalidInputError")}
    ELSE {Returned(sorted_desc(Scored(table, suggestions))) :
             suggestions \in list_of(edit_two_letters(word) \cap vocabulary)}

get_corrections_nonempty(word, table, vocabulary) ==
    IF edit_two_letters(word) \cap vocabulary = {}
    THEN {Raised("IndexError")}
    ELSE {Returned(sorted_desc(Scored(table, suggestions))) :
             suggestions \in list_of(edit_two_letters(word) \cap vocabulary)}

\* The outcomes of one call: one per enumeration order of the suggestion set.
get_corrections(word, table, vocabulary) ==
    {Returned(sorted_desc(Scored(table, suggestions))) :
        suggestions \in list_of(edit_two_letters(word) \cap vocabulary)}

(***************************************************************************)
(* main(): one script run per form submission.                             *)
(***************************************************************************)
TopN == 5

Min(a, b) == IF a < b THEN a ELSE b

\* corrections[:5]
Top(lst) == SubSeq(lst, 1, Min(TopN, Len(lst)))

NoStats == [one_edit |-> 0, two_edit |-> 0, valid |-> 0]

Init ==
    /\ pc = "load"
    /\ probs = EmptyTable
    /\ vocab = {}
    /\ user_word = <<>>
    /\ one_edits = {}
    /\ two_edits = {}
    /\ valid_words = {}
    /\ corrections = <<>>
    /\ raised = "none"
    /\ shown = <<>>
    /\ stats = NoStats

LoadModel ==
    /\ pc = "load"
    /\ \E m \in Models : probs' = m.probs /\ vocab' = m.vocab
    /\ pc' = "form"
    /\ UNCHANGED <<user_word, one_edits, two_edits, valid_words, corrections,
                   raised, shown, stats>>

LoadModelMissing ==
    /\ pc = "load"
    /\ raised' = "FileNotFoundError"
    /\ pc' = "stopped"
    /\ UNCHANGED <<probs, vocab, user_word, one_edits, two_edits, valid_words,
                   corrections, shown, stats>>

Submit ==
    /\ pc \in {"form", "done"}
    /\ \E w \in Words : user_word' = w
    /\ one_edits' = {}
    /\ two_edits' = {}
    /\ valid_words' = {}
    /\ corrections' = <<>>
    /\ shown' = <<>>
    /\ stats' = NoStats
    /\ pc' = "step1"
    /\ UNCHANGED <<probs, vocab, raised>>

Step1 ==
    /\ pc = "step1"
    /\ one_edits' = edit_one_letter(user_word)
    /\ pc' = "step2"
    /\ UNCHANGED <<probs, vocab, user_word, two_edits, valid_words, corrections,
                   raised, shown, stats>>

Step2 ==
    /\ pc = "step2"
    /\ two_edits' = edit_two_letters(user_word)
    /\ pc' = "step3"
    /\ UNCHANGED <<probs, vocab, user_word, one_edits, valid_words, corrections,
                   raised, shown, stats>>

Step3 ==
    /\ pc = "step3"
    /\ valid_words' = two_edits \cap vocab
    /\ pc' = "step4"
    /\ UNCHANGED <<probs, vocab, user_word, one_edits, two_edits, corrections,
                   raised, shown, stats>>

Step4 ==
    /\ pc = "step4"
    /\ \E r \in get_corrections(user_word, probs, vocab) :
          /\ corrections' = r.value
          /\ raised' = r.status
          /\ pc' = IF r.status = "none" THEN "display" ELSE "stopped"
    /\ UNCHANGED <<probs, vocab, user_word, one_edits, two_edits, valid_words,
                   shown, stats>>

Display ==
    /\ pc = "display"
    /\ shown' = Top(corrections)
    /\ stats' = [one_edit |-> Cardinality(one_edits),
                 two_edit |-> Cardinality(two_edits),
                 valid    |-> Cardinality(valid_words)]
    /\ pc' = "done"
    /\ UNCHANGED <<probs, vocab, user_word, one_edits, two_edits, valid_words,
                   corrections, raised>>

Next ==
    \/ LoadModel
    \/ LoadModelMissing
    \/ Submit
    \/ Step1
    \/ Step2
    \/ Step3
    \/ Step4
    \/ Display

Spec == Init /\ [][Next]_vars

(***************************************************************************)
(* Vocabulary of the properties.                                           *)
(***************************************************************************)
Alphabet == {letters[c] : c \in DOMAIN letters}

IsAlpha(w) == \A i \in DOMAIN w : w[i] \in Alphabet

\* x with its i-th character left out.
Without(x, i) == [j \in 1..(Len(x) - 1) |-> IF j < i THEN x[j] ELSE x[j + 1]]

OneDeleted(w, x) ==
    /\ Len(x) = Len(w) - 1
    /\ \E i \in 1..Len(w) : x = Without(w, i)

OneInserted(w, x) ==
    /\ Len(x) = Len(w) + 1
    /\ \E i \in 1..Len(x) : x[i] \in Alphabet /\ w = Without(x, i)

OneSubstituted(w, x) ==
    /\ Len(x) = Len(w)
    /\ \E i \in 1..Len(w) :
          /\ x[i] # w[i]
          /\ x[i] \in Alphabet
          /\ \A j \in (1..Len(w)) \ {i} : x[j] = w[j]

AdjacentSwapped(w, x) ==
    /\ Len(x) = Len(w)
    /\ \E i \in 1..(Len(w) - 1) :
          /\ w[i] # w[i + 1]
          /\ x[i] = w[i + 1]
          /\ x[i + 1] = w[i]
          /\ \A j \in (1..Len(w)) \ {i, i + 1} : x[j] = w[j]

One(b) == IF b THEN 1 ELSE 0

\* In how many of the four ways x differs from w by a single edit.
EditKinds(w, x) ==
    One(OneDeleted(w, x)) + One(AdjacentSwapped(w, x))
        + One(OneSubstituted(w, x)) + One(OneInserted(w, x))

WordsIn(lst) == {lst[i][1] : i \in DOMAIN lst}

PairsIn(lst) == {lst[i] : i \in DOMAIN lst}

ProbsOf(lst) == [i \in DOMAIN lst |-> lst[i][2]]

AfterCall == pc \in {"display", "done", "stopped"} /\ raised # "FileNotFoundError"

\* No two suggestions of equal probability sit on the two sides of the cut
\* that corrections[:5] makes.
NoTieAtCut(lst) == Len(lst) > TopN => lst[TopN][2] # lst[TopN + 1][2]

(***************************************************************************)
(* C1. As stated: for a word w over a-z, every member of                   *)
(* edit_one_letter(w) differs from w by exactly one of a deletion, an      *)
(* adjacent swap, a substitution or an insertion.                          *)
(***************************************************************************)
C1_EveryMemberDiffersByOneEdit ==
    (pc = "step2" /\ IsAlpha(user_word)) =>
        \A x \in one_edits : EditKinds(user_word, x) = 1

\* C1, amended: every member of edit_one_letter(w) other than w itself
\* differs from w by exactly one of the four edits; w itself is a member
\* exactly when w is not empty.
C1_MembersAreWordOrOneEdit ==
    (pc = "step2" /\ IsAlpha(user_word)) =>
        /\ \A x \in one_edits : x = user_word \/ EditKinds(user_word, x) = 1
        /\ (user_word \in one_edits) <=> (user_word # <<>>)

C1_Witness ==
    /\ pc = "step2"
    /\ IsAlpha(user_word)
    /\ user_word \in one_edits
    /\ \E x \in one_edits : OneDeleted(user_word, x)
    /\ \E x \in one_edits : AdjacentSwapped(user_word, x)
    /\ \E x \in one_edits : OneSubstituted(user_word, x)
    /\ \E x \in one_edits : OneInserted(user_word, x)

(***************************************************************************)
(* C2. The two-edit set that main holds is exactly the union of            *)
(* edit_one_letter(w1) over the members w1 of the one-edit set: no member  *)
(* is missing and none is added.                                           *)
(***************************************************************************)
C2_TwoEditsIsUnionOfOneEdits ==
    (pc = "step3" /\ IsAlpha(user_word)) =>
        two_edits = UNION {edit_one_letter(e1) : e1 \in one_edits}

C2_Witness ==
    /\ pc = "step3"
    /\ IsAlpha(user_word)
    /\ Len(user_word) >= 2
    /\ \E e2 \in two_edits : e2 \notin one_edits /\ Len(e2) = Len(user_word) + 2
    /\ \E e2 \in two_edits : e2 \notin one_edits /\ Len(e2) = Len(user_word) - 2

(***************************************************************************)
(* C3. As stated: some word w over a-z, among those the form accepts, has  *)
(* a one-edit set that is not contained in its two-edit set.               *)
(***************************************************************************)
C3_SomeWordNotContained ==
    pc = "form" =>
        \E w \in AlphaWords : ~(edit_one_letter(w) \subseteq edit_two_letters(w))

\* C3, amended: for every word w over a-z the one-edit set is contained in
\* the two-edit set (a non-empty w is its own one-edit, by the replace of a
\* letter with itself; the one-edits of the empty word are single letters,
\* and each is again its own one-edit).
C3_OneEditsContainedInTwoEdits ==
    (pc = "step3" /\ IsAlpha(user_word)) =>
        /\ one_edits \subseteq two_edits
        /\ user_word \in two_edits

C3_Witness ==
    /\ pc = "step3"
    /\ user_word = <<>>
    /\ Cardinality(one_edits) = Len(letters)
    /\ one_edits \subseteq two_edits
    /\ one_edits # two_edits

(***************************************************************************)
(* C4. The words of the list get_corrections returns are exactly           *)
(* edit_two_letters(w) \cap vocab, each once; this is the valid-word set   *)
(* of main, so the displayed count equals the length of the list.          *)
(***************************************************************************)
C4_CorrectionsAreTheValidWords ==
    pc = "done" =>
        /\ WordsIn(corrections) = two_edits \cap vocab
        /\ WordsIn(corrections) = valid_words
        /\ Len(corrections) = Cardinality(WordsIn(corrections))
        /\ stats.valid = Len(corrections)

C4_Witness ==
    /\ pc = "done"
    /\ Len(corrections) >= 2
    /\ vocab \ valid_words # {}
    /\ valid_words \ one_edits # {}
    /\ stats.valid = Len(corrections)

(***************************************************************************)
(* C5. Each returned pair (s, p) has p = P[s] when s is a key of P and 0   *)
(* otherwise, and the list is non-increasing in p.                         *)
(***************************************************************************)
C5_ScoredAndNonIncreasing ==
    pc \in {"display", "done"} =>
        /\ raised = "none"
        /\ \A i \in DOMAIN corrections :
              corrections[i][2] = IF corrections[i][1] \in DOMAIN probs
                                  THEN probs[corrections[i][1]] ELSE 0
        /\ \A i, j \in DOMAIN corrections :
              i < j => corrections[i][2] >= corrections[j][2]

C5_Witness ==
    /\ pc = "done"
    /\ Len(corrections) >= 3
    /\ corrections[1][2] > corrections[2][2]
    /\ \E i \in DOMAIN corrections : corrections[i][1] \notin DOMAIN probs
    /\ \E i \in DOMAIN corrections :
          corrections[i][1] \in DOMAIN probs /\ corrections[i][2] = 0

(***************************************************************************)
(* C6. A word over a-z that is itself in the vocabulary is in the          *)
(* valid-word set and in the returned list, paired with its own            *)
(* probability (0 when the table has no entry for it).                     *)
(***************************************************************************)
C6_VocabularyWordSuggestsItself ==
    (pc = "done" /\ IsAlpha(user_word) /\ user_word \in vocab) =>
        /\ user_word \in valid_words
        /\ \E i \in DOMAIN corrections :
              /\ corrections[i][1] = user_word
              /\ corrections[i][2] = IF user_word \in DOMAIN probs
                                     THEN probs[user_word] ELSE 0

C6_Witness ==
    /\ pc = "done"
    /\ user_word \in vocab
    /\ Len(user_word) = 2
    /\ user_word \in DOMAIN probs
    /\ \E i \in DOMAIN corrections :
          corrections[i] = <<user_word, probs[user_word]>> /\ probs[user_word] > 0

(***************************************************************************)
(* C7. As stated: for a word with a character outside a-z the call fails   *)
(* with InvalidInputError and produces no correction list.                 *)
(***************************************************************************)
C7_InvalidWordRaises ==
    (AfterCall /\ ~IsAlpha(user_word)) =>
        /\ raised = "InvalidInputError"
        /\ pc = "stopped"
        /\ corrections = <<>>

\* C7, amended: get_corrections does not validate the alphabet; for a word
\* with a character outside a-z it raises nothing and returns the ranked
\* list of edit_two_letters(w) \cap vocab, as for any other word.
C7_InvalidWordIsCorrectedLikeAnyOther ==
    (AfterCall /\ ~IsAlpha(user_word)) =>
        /\ raised = "none"
        /\ pc # "stopped"
        /\ WordsIn(corrections) = two_edits \cap vocab

C7_Witness ==
    /\ pc = "done"
    /\ ~IsAlpha(user_word)
    /\ raised = "none"
    /\ Len(shown) >= 2

(***************************************************************************)
(* C9. get_corrections has no failure outcome; when no two-edit candidate  *)
(* is in the vocabulary (the empty vocabulary included) it returns the     *)
(* empty list.                                                             *)
(***************************************************************************)
C9_NoFailureAndEmptyListWhenNothingValid ==
    /\ raised \in {"none", "FileNotFoundError"}
    /\ pc = "stopped" => raised = "FileNotFoundError"
    /\ (pc \in {"display", "done"} /\ two_edits \cap vocab = {}) => corrections = <<>>

C9_Witness ==
    /\ pc = "done"
    /\ vocab # {}
    /\ two_edits \cap vocab = {}
    /\ corrections = <<>>
    /\ raised = "none"

(***************************************************************************)
(* C8. edit_one_letter("") is the 26 one-letter words, all of them         *)
(* insertions at the only split; the delete, transpose and replace         *)
(* families are empty.                                                     *)
(***************************************************************************)
C8_EmptyWordHasTwentySixInsertions ==
    (pc = "step2" /\ user_word = <<>>) =>
        /\ Cardinality(one_edits) = 26
        /\ one_edits = {<<c>> : c \in Alphabet}
        /\ Cardinality(splits(user_word)) = 1
        /\ inserts(user_word) = one_edits
        /\ deletes(user_word) = {}
        /\ transposes(user_word) = {}
        /\ replaces(user_word) = {}

C8_Witness ==
    /\ pc = "step2"
    /\ user_word = <<>>
    /\ <<"z">> \in one_edits
    /\ Cardinality(one_edits) = 26

(***************************************************************************)
(* C10. A second call of get_corrections with the same word, vocabulary    *)
(* and table returns the same pairs with the same sequence of              *)
(* probabilities as the first: the outputs agree up to the order of        *)
(* suggestions of equal probability.  When no tie sits across the fifth    *)
(* position, the two top-5 slices hold the same suggestions.               *)
(***************************************************************************)
C10_SecondCallAgreesUpToTies ==
    pc = "done" =>
        \A again \in get_corrections(user_word, probs, vocab) :
            /\ again.status = raised
            /\ PairsIn(again.value) = PairsIn(corrections)
            /\ ProbsOf(again.value) = ProbsOf(corrections)
            /\ NoTieAtCut(corrections) =>
                  /\ PairsIn(Top(again.value)) = PairsIn(shown)
                  /\ ProbsOf(Top(again.value)) = ProbsOf(shown)

C10_Witness ==
    /\ pc = "done"
    /\ Len(corrections) > TopN
    /\ NoTieAtCut(corrections)
    /\ \E again \in get_corrections(user_word, probs, vocab) :
          again.value # corrections

====
